---- MODULE Spec2Model ----
(***************************************************************************)
(* Model of the datadog-custom-costs pipelines: neon_costs.py,             *)
(* github_costs.py and the shared datadog_uploader.py.                     *)
(*                                                                         *)
(* Conventions                                                             *)
(*  - a Python dict is a TLA+ function whose DOMAIN is its key set;        *)
(*    d.get(k, default) is Get(d, k, default);                             *)
(*  - a Python str that the code inspects (names, topics, dates) is a      *)
(*    sequence of one-character strings; other strings are TLA+ strings;  *)
(*  - a Decimal is an exact rational <<num, den>> in lowest terms with     *)
(*    den > 0;                                                             *)
(*  - Python None is the string "None".                                    *)
(***************************************************************************)
EXTENDS Integers, Sequences, FiniteSets, TLC

VARIABLES
    provider,            \* which program runs: "Neon", "GitHub", or "Direct" (a caller of the uploader module)
    environ,             \* os.environ: the credential variables, None when unset
    dry_run,             \* args.dry_run
    date_args,           \* the date arguments: [year, month, day], month/day 0 when not given
    source,              \* the provider's data: the pages (Neon) or the one response (GitHub) it holds
    pc,                  \* position of the run in main() / upload_costs()
    calls,               \* the network calls made so far, in order, each with how it ended
    exit_code,           \* process exit status; -1 while running
    raised,              \* the exception travelling up to main's except clause, "None" when none
    uploader,            \* the DatadogCostUploader: <<>> or <<[api_key, app_key]>> once constructed
    project_name_map,    \* neon main: result of fetch_project_metadata
    cursor,              \* fetch_projects_with_consumption: cursor
    all_projects,        \* fetch_projects_with_consumption: all_projects
    projects,            \* neon main: projects / github main: usage_data
    idx,                 \* main: number of entities the for loop has processed
    all_focus_records,   \* neon main: all_focus_records / github main: focus_data
    projects_with_data,  \* neon main: projects_with_data
    total_org_cost,      \* neon main: total_org_cost
    warnings,            \* neon main: number of "Expected 1 daily record" warnings logged
    stdout,              \* what the dry run printed: <<>> or <<[records, total, count]>>
    cost_data,           \* upload_costs: the cost_data argument
    upload_calls,        \* number of times upload_costs was called
    submitted,           \* the batches the PUT carried to the sink, in order
    tmp_file,            \* upload_costs: <<>> or <<temp_filename>> once computed
    file_exists,         \* whether the temporary file is on disk
    upload_result,       \* upload_costs's return value: "None", "True" or "False"
    v_record,            \* validate_focus_format: the cost_record argument of the last call
    v_result,            \* validate_focus_format: its return value: "None", "True" or "False"
    m_call,              \* a direct call of a NeonCostFetcher method: the method and its arguments
    m_result             \* that call's return value: <<>> or <<value>> once it has returned

inputs == <<provider, environ, dry_run, date_args, source>>
fetchv == <<project_name_map, cursor, all_projects, projects>>
loopv == <<idx, all_focus_records, projects_with_data, total_org_cost, warnings>>
uploadv == <<cost_data, upload_calls, submitted, tmp_file, file_exists, upload_result>>
validv == <<v_record, v_result>>
methodv == <<m_call, m_result>>

vars == <<inputs, pc, calls, exit_code, raised, uploader, fetchv, loopv, stdout,
          uploadv, validv, methodv>>

None == "None"

(***************************************************************************)
(* Python helpers                                                          *)
(***************************************************************************)
\* dict.get(k, default)
Get(d, k, default) == IF k \in DOMAIN d THEN d[k] ELSE default

\* the empty dict {}
EmptyDict == [k \in {} |-> None]

\* d[k] = v on a dict
DictSet(d, k, v) == [x \in DOMAIN d \cup {k} |-> IF x = k THEN v ELSE d[x]]

\* {**a, **b}
DictMerge(a, b) == [x \in DOMAIN a \cup DOMAIN b |-> IF x \in DOMAIN b THEN b[x] ELSE a[x]]

\* truthiness of an optional string value (a cursor, a key): None and "" are falsy
Truthy(x) == x # None /\ x # ""

RECURSIVE Concat(_)
\* list.extend over a sequence of lists
Concat(ss) == IF ss = <<>> THEN <<>> ELSE Head(ss) \o Concat(Tail(ss))

(***************************************************************************)
(* Decimal arithmetic: exact rationals <<num, den>>                        *)
(***************************************************************************)
Abs(n) == IF n < 0 THEN -n ELSE n

RECURSIVE Gcd(_, _)
Gcd(a, b) == IF b = 0 THEN a ELSE Gcd(b, a % b)

\* lowest terms, positive denominator
RatNorm(n, d) ==
    LET g == Gcd(Abs(n), Abs(d))
        s == IF d < 0 THEN -1 ELSE 1
    IN  IF n = 0 THEN <<0, 1>> ELSE <<s * (n \div g), s * (d \div g)>>

\* Decimal(str(n)) for an integer n
Dec(n) == <<n, 1>>

\* a * b, cross-reduced first so that the products stay small
RatMul(a, b) ==
    LET g1 == Gcd(Abs(a[1]), b[2])
        g2 == Gcd(Abs(b[1]), a[2])
    IN  IF a[1] = 0 \/ b[1] = 0 THEN <<0, 1>>
        ELSE RatNorm((a[1] \div g1) * (b[1] \div g2), (a[2] \div g2) * (b[2] \div g1))

\* a / b, b non-zero
RatDiv(a, b) == RatMul(a, IF b[1] < 0 THEN <<-b[2], -b[1]>> ELSE <<b[2], b[1]>>)

RatAdd(a, b) ==
    LET g == Gcd(a[2], b[2])
    IN  RatNorm(a[1] * (b[2] \div g) + b[1] * (a[2] \div g), (a[2] \div g) * b[2])

RatPos(a) == a[1] > 0

RatZero == <<0, 1>>

RECURSIVE RatSum(_)
\* sum(...) over a sequence of amounts, left to right from 0
RatSum(s) == IF s = <<>> THEN RatZero ELSE RatAdd(RatSum(SubSeq(s, 1, Len(s) - 1)), s[Len(s)])

(***************************************************************************)
(* Strings the code inspects, as character sequences                       *)
(***************************************************************************)
Digits == <<"0", "1", "2", "3", "4", "5", "6", "7", "8", "9">>

Digit(n) == Digits[n + 1]

RECURSIVE IntToChars(_)
\* str(n) for n >= 0
IntToChars(n) == IF n < 10 THEN <<Digit(n)>> ELSE Append(IntToChars(n \div 10), Digit(n % 10))

RECURSIVE PadLeft(_, _)
\* zero-padding to a width, as %Y / %m / %d and :02d do
PadLeft(cs, width) == IF Len(cs) >= width THEN cs ELSE PadLeft(<<"0">> \o cs, width)

\* datetime.strftime("%Y-%m-%d")
Strftime(date) ==
    PadLeft(IntToChars(date.year), 4) \o <<"-">> \o PadLeft(IntToChars(date.month), 2)
        \o <<"-">> \o PadLeft(IntToChars(date.day), 2)

RECURSIVE Pow10(_)
Pow10(k) == IF k = 0 THEN 1 ELSE 10 * Pow10(k - 1)

\* f"{x:.<places>f}" of a non-negative amount: rounded to the nearest, ties to even
FormatFixed(x, places) ==
    LET scaled == RatMul(x, Dec(Pow10(places)))
        q == scaled[1] \div scaled[2]
        r == scaled[1] % scaled[2]
        n == IF 2 * r > scaled[2] \/ (2 * r = scaled[2] /\ q % 2 = 1) THEN q + 1 ELSE q
    IN  IntToChars(n \div Pow10(places)) \o <<".">> \o PadLeft(IntToChars(n % Pow10(places)), places)

\* the index of the last occurrence of ch in cs, 0 when there is none
LastIndexOf(cs, ch) ==
    IF \E i \in 1..Len(cs) : cs[i] = ch
    THEN CHOOSE i \in 1..Len(cs) : cs[i] = ch /\ \A j \in (i + 1)..Len(cs) : cs[j] # ch
    ELSE 0

\* str.split("-", 1): a split at the first hyphen instead of the last
SplitHyphen(name) ==
    LET i == CHOOSE i \in 1..Len(name) : name[i] = "-" /\ \A j \in 1..(i - 1) : name[j] # "-"
    IN  <<SubSeq(name, 1, i - 1), SubSeq(name, i + 1, Len(name))>>

\* str.rsplit("-", 1) of a name that contains a hyphen
RSplitHyphen(name) ==
    LET i == LastIndexOf(name, "-")
    IN  <<SubSeq(name, 1, i - 1), SubSeq(name, i + 1, Len(name))>>

\* str.startswith(prefix)
StartsWith(cs, prefix) == Len(cs) >= Len(prefix) /\ SubSeq(cs, 1, Len(prefix)) = prefix

Unknown == <<"u", "n", "k", "n", "o", "w", "n">>

ServicePrefix == <<"s", "e", "r", "v", "i", "c", "e", "-">>

(***************************************************************************)
(* neon_costs.py: pricing and the pure functions of NeonCostFetcher        *)
(***************************************************************************)
PRICING ==
    [compute_per_cu_hour  |-> RatNorm(222, 1000),
     storage_per_gb_month |-> RatNorm(35, 100),
     data_transfer_per_gb |-> RatNorm(10, 100)]

SecondsPerHour == 3600

BytesPerGB == 1073741824

IsLeap(y) == (y % 4 = 0 /\ y % 100 # 0) \/ y % 400 = 0

\* a proration that takes every month as 30 days
ThirtyDayMonth(y, m) == 30

\* calendar.monthrange(year, month)[1]
DaysInMonth(y, m) ==
    IF m = 2 THEN (IF IsLeap(y) THEN 29 ELSE 28)
    ELSE IF m \in {4, 6, 9, 11} THEN 30 ELSE 31

RECURSIVE MetricsLookup(_)
\* the loop of extract_daily_metrics: a later pair overwrites an earlier one
MetricsLookup(ms) ==
    IF ms = <<>> THEN EmptyDict
    ELSE LET m == ms[Len(ms)]
         IN  DictSet(MetricsLookup(SubSeq(ms, 1, Len(ms) - 1)),
                     Get(m, "metric_name", None), Get(m, "value", 0))

extract_daily_metrics(daily_record) ==
    LET metrics_lookup == MetricsLookup(Get(daily_record, "metrics", <<>>))
    IN  [timeframe_start       |-> Get(daily_record, "timeframe_start", ""),
         timeframe_end         |-> Get(daily_record, "timeframe_end", ""),
         compute_seconds       |-> Get(metrics_lookup, "compute_unit_seconds", 0),
         storage_bytes         |-> Get(metrics_lookup, "root_branch_bytes_month", 0)
                                    + Get(metrics_lookup, "child_branch_bytes_month", 0),
         root_branch_bytes     |-> Get(metrics_lookup, "root_branch_bytes_month", 0),
         child_branch_bytes    |-> Get(metrics_lookup, "child_branch_bytes_month", 0),
         public_transfer_bytes |-> Get(metrics_lookup, "public_network_transfer_bytes", 0)]

\* float() of the Decimal results is taken as exact: binary rounding keeps the sign
\* and the order of amounts of this magnitude
calculate_daily_costs(metrics, date) ==
    LET days_in_month == DaysInMonth(date.year, date.month)
        compute_hours == RatDiv(Dec(metrics.compute_seconds), Dec(SecondsPerHour))
        compute_cost == RatMul(compute_hours, PRICING.compute_per_cu_hour)
        storage_gb == RatDiv(Dec(metrics.storage_bytes), Dec(BytesPerGB))
        storage_cost == RatDiv(RatMul(storage_gb, PRICING.storage_per_gb_month),
                               Dec(days_in_month))
        public_transfer_gb == RatDiv(Dec(metrics.public_transfer_bytes), Dec(BytesPerGB))
        data_transfer_cost == RatMul(public_transfer_gb, PRICING.data_transfer_per_gb)
    IN  [compute_cost       |-> compute_cost,
         storage_cost       |-> storage_cost,
         data_transfer_cost |-> data_transfer_cost,
         compute_hours      |-> compute_hours,
         storage_gb         |-> storage_gb,
         public_transfer_gb |-> public_transfer_gb,
         compute_rate       |-> PRICING.compute_per_cu_hour,
         storage_rate       |-> PRICING.storage_per_gb_month,
         data_transfer_rate |-> PRICING.data_transfer_per_gb,
         days_in_month      |-> days_in_month]

\* the project tags of convert_to_focus (lines 278-296)
ProjectTags(project) ==
    LET project_id == Get(project, "id", Unknown)
        project_name == Get(project, "name", Unknown)
        base == [project_id |-> project_id, project_name |-> project_name]
    IN  IF \E i \in 1..Len(project_name) : project_name[i] = "-"
        THEN DictMerge(base, [service |-> RSplitHyphen(project_name)[1],
                              env     |-> RSplitHyphen(project_name)[2]])
        ELSE DictMerge(base, [service |-> project_name, env |-> Unknown])

\* the guard of each of the three appends of convert_to_focus: "only if > 0"
Emits(cost) == RatPos(cost)

NeonRecord(description, charge_date, cost, tags) ==
    [ProviderName      |-> "Neon",
     ChargeDescription |-> description,
     ChargePeriodStart |-> charge_date,
     ChargePeriodEnd   |-> charge_date,
     BilledCost        |-> cost,
     BillingCurrency   |-> "USD",
     Tags              |-> tags]

\* NeonCostFetcher.convert_to_focus; project is always given by main
Neon_convert_to_focus(costs, metrics, date, project) ==
    LET charge_date == Strftime(date)
        project_tags == ProjectTags(project)
        compute == IF Emits(costs.compute_cost)
                   THEN <<NeonRecord("Compute", charge_date, costs.compute_cost,
                            DictMerge(project_tags,
                              [charge_type      |-> "compute",
                               compute_hours    |-> FormatFixed(costs.compute_hours, 4),
                               rate_per_cu_hour |-> costs.compute_rate]))>>
                   ELSE <<>>
        storage == IF Emits(costs.storage_cost)
                   THEN <<NeonRecord("Storage", charge_date, costs.storage_cost,
                            DictMerge(project_tags,
                              [charge_type       |-> "storage",
                               storage_gb        |-> FormatFixed(costs.storage_gb, 2),
                               rate_per_gb_month |-> costs.storage_rate]))>>
                   ELSE <<>>
        transfer == IF Emits(costs.data_transfer_cost)
                    THEN <<NeonRecord("Data Transfer", charge_date, costs.data_transfer_cost,
                             DictMerge(project_tags,
                               [charge_type        |-> "data_transfer",
                                public_transfer_gb |-> FormatFixed(costs.public_transfer_gb, 4),
                                rate_per_gb        |-> costs.data_transfer_rate]))>>
                    ELSE <<>>
    IN  compute \o storage \o transfer

(***************************************************************************)
(* github_costs.py: the pure part of GitHubCostFetcher.convert_to_focus    *)
(***************************************************************************)
\* the for loop over topics: the suffix of the first topic starting with "service-",
\* the default when there is none
ServiceOf(topics, default) ==
    IF \E i \in 1..Len(topics) : StartsWith(topics[i], ServicePrefix)
    THEN LET i == CHOOSE i \in 1..Len(topics) :
                      /\ StartsWith(topics[i], ServicePrefix)
                      /\ \A j \in 1..(i - 1) : ~StartsWith(topics[j], ServicePrefix)
         IN  SubSeq(topics[i], 9, Len(topics[i]))
    ELSE default

\* the BilledCost of a usage item (line 170); quantity and pricePerUnit are JSON numbers
GitHubBilledCost(usage_item) ==
    RatMul(Get(usage_item, "quantity", RatZero), Get(usage_item, "pricePerUnit", RatZero))

\* GitHubCostFetcher.convert_to_focus, given the result of its get_repository_metadata call
GitHub_convert_to_focus(usage_item, billing_start, billing_end, repo_metadata) ==
    LET product == Get(usage_item, "product", "Unknown")
        sku == Get(usage_item, "sku", "Unknown")
        repository == Get(usage_item, "repositoryName", <<>>)
        quantity == Get(usage_item, "quantity", RatZero)
        unit_type == Get(usage_item, "unitType", "")
        price_per_unit == Get(usage_item, "pricePerUnit", RatZero)
        net_amount == Get(usage_item, "netAmount", RatZero)
        t0 == [sku |-> sku]
        t1 == IF repository # <<>>
              THEN DictMerge(t0, [repository |-> repository,
                                  service    |-> ServiceOf(Get(repo_metadata, "topics", <<>>),
                                                           repository)])
              ELSE t0
        t2 == IF unit_type # "" THEN DictSet(t1, "unit_type", unit_type) ELSE t1
        t3 == IF quantity # RatZero THEN DictSet(t2, "quantity", quantity) ELSE t2
        t4 == IF price_per_unit # RatZero THEN DictSet(t3, "unit_price", price_per_unit) ELSE t3
        t5 == IF net_amount # RatZero THEN DictSet(t4, "net_amount", net_amount) ELSE t4
    IN  [ProviderName      |-> "GitHub",
         ChargeDescription |-> product,
         ChargePeriodStart |-> Strftime(billing_start),
         ChargePeriodEnd   |-> Strftime(billing_end),
         BilledCost        |-> GitHubBilledCost(usage_item),
         BillingCurrency   |-> "USD",
         Tags              |-> t5]

\* github main, lines 280-289: billing_start for the date arguments (0 = not given)
BillingDate(args) ==
    IF args.day # 0 THEN [year |-> args.year, month |-> args.month, day |-> args.day]
    ELSE IF args.month # 0 THEN [year |-> args.year, month |-> args.month, day |-> 1]
    ELSE [year |-> args.year, month |-> 1, day |-> 1]

\* a charge period that runs to the last day of the month or year the arguments name
BillingEndOfPeriod(args) ==
    IF args.day # 0 THEN [year |-> args.year, month |-> args.month, day |-> args.day]
    ELSE IF args.month # 0
    THEN [year |-> args.year, month |-> args.month, day |-> DaysInMonth(args.year, args.month)]
    ELSE [year |-> args.year, month |-> 12, day |-> 31]

\* github main, lines 280-289: billing_end for the date arguments, the same day as
\* billing_start in each of the three branches
BillingEnd(args) ==
    IF args.day # 0 THEN [year |-> args.year, month |-> args.month, day |-> args.day]
    ELSE IF args.month # 0 THEN [year |-> args.year, month |-> args.month, day |-> 1]
    ELSE [year |-> args.year, month |-> 1, day |-> 1]

(***************************************************************************)
(* datadog_uploader.py: the pure parts of DatadogCostUploader              *)
(***************************************************************************)
\* a field list that has lost its last entry
required_fields_short ==
    <<"ProviderName", "ChargeDescription", "ChargePeriodStart", "ChargePeriodEnd",
      "BilledCost">>

required_fields ==
    <<"ProviderName", "ChargeDescription", "ChargePeriodStart", "ChargePeriodEnd",
      "BilledCost", "BillingCurrency">>

RECURSIVE MissingField(_, _)
\* the for loop of validate_focus_format: TRUE when some field of the list is absent
MissingField(cost_record, fields) ==
    IF fields = <<>> THEN FALSE
    ELSE IF Head(fields) \notin DOMAIN cost_record THEN TRUE
    ELSE MissingField(cost_record, Tail(fields))

validate_focus_format(cost_record) == ~MissingField(cost_record, required_fields)

\* the order of characters in date strings
CharOrder == <<"-">> \o Digits

CharOrd(c) == CHOOSE i \in 1..Len(CharOrder) : CharOrder[i] = c

RECURSIVE StrLeq(_, _)
\* a <= b on strings
StrLeq(a, b) ==
    IF a = <<>> THEN TRUE
    ELSE IF b = <<>> THEN FALSE
    ELSE IF Head(a) = Head(b) THEN StrLeq(Tail(a), Tail(b))
    ELSE CharOrd(Head(a)) < CharOrd(Head(b))

\* [record.get(key) for record in cost_data if record.get(key)]
DatesOf(batch, key) ==
    LET Has(record) == key \in DOMAIN record /\ record[key] # <<>>
        kept == SelectSeq(batch, Has)
    IN  [i \in 1..Len(kept) |-> kept[i][key]]

MinStr(ds) == CHOOSE x \in {ds[i] : i \in 1..Len(ds)} : \A j \in 1..Len(ds) : StrLeq(x, ds[j])

MaxStr(ds) == CHOOSE x \in {ds[i] : i \in 1..Len(ds)} : \A j \in 1..Len(ds) : StrLeq(ds[j], x)

\* lines 57-71: the name of the temporary upload file, as <<provider label, date range>>
TempFilename(batch, provider_name) ==
    LET start_dates == DatesOf(batch, "ChargePeriodStart")
        end_dates == DatesOf(batch, "ChargePeriodEnd")
        date_range == IF start_dates # <<>> /\ end_dates # <<>>
                      THEN IF MinStr(start_dates) = MaxStr(end_dates)
                           THEN <<MinStr(start_dates)>>
                           ELSE <<MinStr(start_dates), MaxStr(end_dates)>>
                      ELSE <<>>
    IN  <<IF Truthy(provider_name) THEN provider_name ELSE "data", date_range>>

\* "not self.api_key or not self.app_key"
CredentialsMissing(u) == ~Truthy(u.api_key) \/ ~Truthy(u.app_key)

(***************************************************************************)
(* The data the collaborators can answer with                              *)
(***************************************************************************)
MaxPages == 3

P1 == <<"p", "1">>
P2 == <<"p", "2">>
P3 == <<"p", "3">>

GameOpsStage == <<"g", "a", "m", "e", "-", "o", "p", "s", "-", "s", "t", "a", "g", "e">>
Worker == <<"w", "o", "r", "k", "e", "r">>

\* raw daily consumption records of the v2 API
RecBusy ==
    [timeframe_start |-> "t0", timeframe_end |-> "t1",
     metrics |-> <<[metric_name |-> "compute_unit_seconds", value |-> 3600],
                   [metric_name |-> "root_branch_bytes_month", value |-> 1073741824],
                   [metric_name |-> "child_branch_bytes_month", value |-> 0],
                   [metric_name |-> "public_network_transfer_bytes", value |-> 536870912]>>]
RecIdle ==
    [timeframe_start |-> "t0", timeframe_end |-> "t1",
     metrics |-> <<[metric_name |-> "compute_unit_seconds", value |-> 0],
                   [metric_name |-> "root_branch_bytes_month", value |-> 0]>>]
RecCompute ==
    [metrics |-> <<[metric_name |-> "compute_unit_seconds", value |-> 7200]>>]

\* entities of the consumption endpoint
ProjBusy == [project_id |-> P1, periods |-> <<[consumption |-> <<RecBusy>>]>>]
ProjIdle == [project_id |-> P2, periods |-> <<[consumption |-> <<RecIdle>>]>>]
ProjNoPeriods == [project_id |-> P3, periods |-> <<>>]
ProjTwoRecords == [project_id |-> P1, periods |-> <<[consumption |-> <<RecCompute, RecBusy>>]>>]
ProjNoConsumption == [project_id |-> P2, periods |-> <<[consumption |-> <<>>]>>]

\* the entity lists a page of the consumption endpoint can hold
PagePool == {<<>>, <<ProjBusy>>, <<ProjIdle, ProjTwoRecords>>, <<ProjNoPeriods, ProjNoConsumption>>}

\* the opaque cursor that asks for page i
Tokens == <<"c1", "c2", "c3", "c4", "c5">>

\* the ways the last page says there is no more: no pagination object, or an empty cursor
FinalBodies == {EmptyDict, [pagination |-> [cursor |-> ""]]}

\* every source of n <= MaxPages pages: pages 1..n-1 carry the cursor of the next page,
\* page n carries none
Sources ==
    UNION {
      {[i \in 1..n |->
           IF i < n THEN [projects |-> c[i], pagination |-> [cursor |-> Tokens[i + 1]]]
           ELSE DictMerge([projects |-> c[i]], f)] :
          c \in [1..n -> PagePool], f \in FinalBodies}
      : n \in 1..MaxPages}

\* the page a request with the given cursor parameter is answered with
PageFor(src, cur) ==
    IF Truthy(cur) THEN src[CHOOSE i \in 1..Len(src) : Tokens[i] = cur] ELSE src[1]

\* the projects lists the metadata endpoint can answer with; an entity may carry labels
MetaPool ==
    {<<>>,
     <<[id |-> P1, name |-> GameOpsStage], [id |-> P2, name |-> Worker]>>,
     <<[id |-> P1, labels |-> <<ServicePrefix \o <<"p", "a", "y">>>>],
       [id |-> P3, name |-> Worker]>>}

RECURSIVE ProjectMap(_)
\* the dict comprehension of fetch_project_metadata (lines 99-102)
ProjectMap(ps) ==
    IF ps = <<>> THEN EmptyDict
    ELSE LET project == ps[Len(ps)]
         IN  DictSet(ProjectMap(SubSeq(ps, 1, Len(ps) - 1)),
                     Get(project, "id", None),
                     Get(project, "name", Get(project, "id", None)))

\* usage items of the GitHub billing endpoint
ItemActions ==
    [product |-> "actions", sku |-> "actions_linux", repositoryName |-> <<"a", "p", "i">>,
     quantity |-> <<2, 1>>, unitType |-> "minutes", pricePerUnit |-> <<1, 125>>,
     netAmount |-> <<2, 125>>]
ItemUnused ==
    [product |-> "actions", sku |-> "actions_linux", repositoryName |-> <<"w", "e", "b">>,
     quantity |-> <<0, 1>>, unitType |-> "minutes", pricePerUnit |-> <<1, 125>>,
     netAmount |-> <<0, 1>>]
ItemCopilot ==
    [product |-> "copilot", sku |-> "copilot_business", quantity |-> <<1, 1>>,
     pricePerUnit |-> <<19, 1>>, netAmount |-> <<19, 1>>]

UsagePool == {<<>>, <<ItemActions>>, <<ItemUnused, ItemActions>>, <<ItemCopilot, ItemUnused>>}

\* what the repository endpoint can answer with
RepoPool ==
    {[name |-> "r"],
     [topics |-> <<>>],
     [topics |-> <<<<"t", "e", "a", "m">>, ServicePrefix \o <<"p", "a", "y">>,
                   ServicePrefix \o <<"o", "p", "s">>>>]}

NeonDates == {[year |-> 2026, month |-> 2, day |-> 5]}

GitHubDates ==
    {[year |-> 2025, month |-> 12, day |-> 22],
     [year |-> 2025, month |-> 12, day |-> 0],
     [year |-> 2025, month |-> 0, day |-> 0]}

EnvNames(p) ==
    (IF p = "Neon" THEN {"NEON_API_KEY", "NEON_ORG_ID"} ELSE {"GITHUB_TOKEN", "GITHUB_ORG"})
        \cup {"DD_API_KEY", "DD_APP_KEY"}

\* os.getenv
Getenv(name) == Get(environ, name, None)

(***************************************************************************)
(* The runs: main() of neon_costs.py and of github_costs.py                *)
(***************************************************************************)
InitRun ==
    /\ pc = "start" /\ calls = <<>> /\ exit_code = -1 /\ raised = None
    /\ uploader = <<>>
    /\ project_name_map = EmptyDict /\ cursor = None /\ all_projects = <<>>
    /\ projects = <<>>
    /\ idx = 0 /\ all_focus_records = <<>> /\ projects_with_data = 0
    /\ total_org_cost = RatZero /\ warnings = 0
    /\ stdout = <<>>
    /\ cost_data = <<>> /\ upload_calls = 0 /\ submitted = <<>> /\ tmp_file = <<>>
    /\ file_exists = FALSE /\ upload_result = None
    /\ v_record = EmptyDict /\ v_result = None

\* no method of the fetcher is called from outside main
NoMethodCall == m_call = EmptyDict /\ m_result = <<>>

Init ==
    /\ provider \in {"Neon", "GitHub"}
    /\ environ \in [EnvNames(provider) -> {None, "secret"}]
    /\ dry_run \in BOOLEAN
    /\ date_args \in (IF provider = "Neon" THEN NeonDates ELSE GitHubDates)
    /\ source \in (IF provider = "Neon" THEN Sources
                   ELSE {<<[usageItems |-> u]>> : u \in UsagePool} \cup {<<EmptyDict>>})
    /\ InitRun /\ NoMethodCall

\* sys.exit(code)
Exit(code) == pc' = "done" /\ exit_code' = code

\* NeonCostFetcher.__init__ / GitHubCostFetcher.__init__ (called at main's first line)
InitFetcher ==
    /\ pc = "start"
    /\ LET api_key == Getenv(IF provider = "Neon" THEN "NEON_API_KEY" ELSE "GITHUB_TOKEN")
           org_id == Getenv(IF provider = "Neon" THEN "NEON_ORG_ID" ELSE "GITHUB_ORG")
       IN  IF ~Truthy(api_key) \/ ~Truthy(org_id)
           THEN pc' = "except" /\ raised' = "ValueError"
           ELSE pc' = "init_uploader" /\ raised' = raised
    /\ UNCHANGED <<inputs, calls, exit_code, uploader, fetchv, loopv, stdout, uploadv, validv, methodv>>

\* DatadogCostUploader.__init__: only warns when a key is missing
NewUploader == <<[api_key |-> Getenv("DD_API_KEY"), app_key |-> Getenv("DD_APP_KEY")]>>

\* main: "if not args.dry_run: uploader = DatadogCostUploader()", then the target date
InitUploader ==
    /\ pc = "init_uploader"
    /\ uploader' = IF ~dry_run THEN NewUploader ELSE uploader
    /\ pc' = IF provider = "Neon" THEN "fetch_metadata" ELSE "fetch_billing"
    /\ UNCHANGED <<inputs, calls, exit_code, raised, fetchv, loopv, stdout, uploadv, validv, methodv>>

\* the ways a GET can end: a body, a non-2xx status, a transport failure
Failures == {[status |-> "HTTPError"], [status |-> "RequestException"]}

MetaOutcomes == {[status |-> "ok", projects |-> m] : m \in MetaPool} \cup Failures

RepoOutcomes == {[status |-> "ok", body |-> b] : b \in RepoPool} \cup Failures

\* fetch_project_metadata, given how its GET ended: the id -> name map, {} on a failure
fetch_project_metadata(outcome) ==
    IF outcome.status = "ok" THEN ProjectMap(outcome.projects) ELSE EmptyDict

\* get_repository_metadata, given how its GET ended: the body, {} on a failure
get_repository_metadata(outcome) ==
    IF outcome.status = "ok" THEN outcome.body ELSE EmptyDict

\* neon main line 393: the fetch_project_metadata call, one GET
FetchMetadata ==
    /\ pc = "fetch_metadata"
    /\ \E outcome \in MetaOutcomes :
           /\ calls' = Append(calls, [to |-> "neon_projects", outcome |-> outcome])
           /\ project_name_map' = fetch_project_metadata(outcome)
    /\ cursor' = None /\ all_projects' = <<>>
    /\ pc' = "fetch_page"
    /\ UNCHANGED <<inputs, exit_code, raised, uploader, projects, loopv, stdout, uploadv, validv, methodv>>

\* a fetch that stops after every page, whatever cursor the page carries
SinglePage(cur) == TRUE

\* "if not cursor: break"
LastPage(cur) == ~Truthy(cur)

\* a pagination loop that keeps only the page it has just read
ExtendOverwrites(acc, page) == page

\* "all_projects.extend(projects)"
Extend(acc, page) == acc \o page

\* a handler that swallows the error and lets main go on with what was fetched
AfterPageErrorSwallowed == "check_empty"

\* where control goes when a page request fails: both handlers (lines 176-184) re-raise,
\* so it leaves fetch_projects_with_consumption for main's except clause
AfterPageError == "except"

\* one iteration of the while loop of fetch_projects_with_consumption (lines 145-184)
FetchPage ==
    /\ pc = "fetch_page"
    /\ \E outcome \in {[status |-> "ok"]} \cup Failures :
           /\ calls' = Append(calls, [to |-> "neon_consumption",
                                      cursor |-> IF Truthy(cursor) THEN cursor ELSE None,
                                      outcome |-> outcome])
           /\ IF outcome.status = "ok"
              THEN LET data == PageFor(source, cursor)
                       next == Get(Get(data, "pagination", EmptyDict), "cursor", None)
                   IN  /\ all_projects' = Extend(all_projects, Get(data, "projects", <<>>))
                       /\ cursor' = next
                       /\ IF LastPage(next)
                          THEN projects' = all_projects' /\ pc' = "check_empty"
                          ELSE projects' = projects /\ pc' = "fetch_page"
                       /\ raised' = raised
              ELSE /\ raised' = outcome.status /\ pc' = AfterPageError
                   /\ UNCHANGED <<cursor, all_projects, projects>>
    /\ UNCHANGED <<inputs, exit_code, uploader, project_name_map, loopv, stdout, uploadv, validv, methodv>>

\* neon main lines 401-403
CheckEmpty ==
    /\ pc = "check_empty"
    /\ IF projects = <<>> THEN Exit(0) ELSE pc' = "loop" /\ exit_code' = exit_code
    /\ UNCHANGED <<inputs, calls, raised, uploader, fetchv, loopv, stdout, uploadv, validv, methodv>>

\* a pipeline that prices the last record of the day
LatestRecord(consumption) == consumption[Len(consumption)]

\* "daily_record = consumption[0]": the record the pipeline prices
CanonicalRecord(consumption) == consumption[1]

\* "if project_id not in project_name_map: continue"
NotInOrganization(project_id, name_map) == project_id \notin DOMAIN name_map

\* the body of the for loop of neon main (lines 410-460) for one project: whether it is
\* skipped, and otherwise its warning, its cost and its records
ProjectOutcome(project, name_map, date) ==
    LET project_id == Get(project, "project_id", None)
        periods == Get(project, "periods", <<>>)
        consumption == IF periods = <<>> THEN <<>>
                       ELSE Get(periods[1], "consumption", <<>>)
    IN  IF NotInOrganization(project_id, name_map) \/ periods = <<>> \/ consumption = <<>>
        THEN [skipped |-> TRUE, warned |-> FALSE, cost |-> RatZero, records |-> <<>>]
        ELSE LET project_info == [id |-> project_id, name |-> name_map[project_id]]
                 metrics == extract_daily_metrics(CanonicalRecord(consumption))
                 costs == calculate_daily_costs(metrics, date)
             IN  [skipped |-> FALSE,
                  warned  |-> Len(consumption) > 1,
                  cost    |-> RatAdd(RatAdd(costs.compute_cost, costs.storage_cost),
                                     costs.data_transfer_cost),
                  records |-> Neon_convert_to_focus(costs, metrics, date, project_info)]

\* one iteration of the for loop of neon main
ProcessProject ==
    /\ pc = "loop" /\ provider = "Neon" /\ idx < Len(projects)
    /\ idx' = idx + 1
    /\ LET out == ProjectOutcome(projects[idx + 1], project_name_map, date_args)
       IN  /\ projects_with_data' = IF out.skipped THEN projects_with_data
                                    ELSE projects_with_data + 1
           /\ warnings' = IF out.warned THEN warnings + 1 ELSE warnings
           /\ total_org_cost' = RatAdd(total_org_cost, out.cost)
           /\ all_focus_records' = all_focus_records \o out.records
    /\ UNCHANGED <<inputs, pc, calls, exit_code, raised, uploader, fetchv, stdout, uploadv, validv, methodv>>

\* github main line 274: fetch_billing_data, one GET; lines 276-278 return when it is empty
FetchBilling ==
    /\ pc = "fetch_billing"
    /\ \E outcome \in {[status |-> "ok"]} \cup Failures :
           /\ calls' = Append(calls, [to |-> "github_usage", outcome |-> outcome])
           /\ IF outcome.status = "ok"
              THEN LET usage_items == Get(source[1], "usageItems", <<>>)
                   IN  /\ projects' = usage_items
                       /\ IF usage_items = <<>> THEN Exit(0)
                          ELSE pc' = "loop" /\ exit_code' = exit_code
                       /\ raised' = raised
              ELSE /\ raised' = outcome.status /\ pc' = "except"
                   /\ UNCHANGED <<projects, exit_code>>
    /\ UNCHANGED <<inputs, uploader, project_name_map, cursor, all_projects, loopv, stdout,
                   uploadv, validv, methodv>>

\* one element of the list comprehension of github main (lines 292-295): convert_to_focus,
\* with its get_repository_metadata GET when the item names a repository
ConvertItem ==
    /\ pc = "loop" /\ provider = "GitHub" /\ idx < Len(projects)
    /\ idx' = idx + 1
    /\ LET item == projects[idx + 1]
           repository == Get(item, "repositoryName", <<>>)
           billing_start == BillingDate(date_args)
           billing_end == BillingEnd(date_args)
       IN  IF repository # <<>>
           THEN \E outcome \in RepoOutcomes :
                    /\ calls' = Append(calls, [to |-> "github_repo", repo |-> repository,
                                               outcome |-> outcome])
                    /\ all_focus_records' = Append(all_focus_records,
                           GitHub_convert_to_focus(item, billing_start, billing_end,
                               get_repository_metadata(outcome)))
           ELSE /\ calls' = calls
                /\ all_focus_records' = Append(all_focus_records,
                       GitHub_convert_to_focus(item, billing_start, billing_end, EmptyDict))
    /\ UNCHANGED <<inputs, pc, exit_code, raised, uploader, fetchv, projects_with_data,
                   total_org_cost, warnings, stdout, uploadv, validv, methodv>>

\* sum(record["BilledCost"] for record in records)
TotalCost(records) == RatSum([i \in 1..Len(records) |-> records[i].BilledCost])

\* a dry run that leaves the zero-cost records out of what it prints
DryRunOutputFiltered(records) ==
    LET kept == SelectSeq(records, LAMBDA r : RatPos(r.BilledCost))
    IN  [records |-> kept, total |-> TotalCost(kept), count |-> Len(kept)]

\* what the dry run prints (neon lines 466-478, github lines 300-311)
DryRunOutput(records) ==
    [records |-> records, total |-> TotalCost(records), count |-> Len(records)]

\* main: "if args.dry_run:" ... sys.exit(0)
DryRun ==
    /\ pc = "loop" /\ idx = Len(projects) /\ dry_run
    /\ stdout' = Append(stdout, DryRunOutput(all_focus_records))
    /\ Exit(0)
    /\ UNCHANGED <<inputs, calls, raised, uploader, fetchv, loopv, uploadv, validv, methodv>>

\* main: "success = uploader.upload_costs(records, provider_name=...)": the call
CallUpload ==
    /\ pc = "loop" /\ idx = Len(projects) /\ ~dry_run
    /\ cost_data' = all_focus_records
    /\ upload_calls' = upload_calls + 1
    /\ pc' = "upload_entry"
    /\ UNCHANGED <<inputs, calls, exit_code, raised, uploader, fetchv, loopv, stdout,
                   submitted, tmp_file, file_exists, upload_result, validv, methodv>>

\* the provider_name argument of upload_costs
ProviderName == IF provider = "Direct" THEN source[1].provider_name ELSE provider

\* an upload that goes on with a batch of no records
EmptyBatchAccepted(batch) == FALSE

\* "if not cost_data"
EmptyBatch(batch) == batch = <<>>

\* upload_costs lines 46-72: the two early returns, then the file name
UploadEntry ==
    /\ pc = "upload_entry"
    /\ IF CredentialsMissing(uploader[1]) \/ EmptyBatch(cost_data)
       THEN upload_result' = "False" /\ pc' = "upload_return" /\ tmp_file' = tmp_file
       ELSE /\ tmp_file' = <<TempFilename(cost_data, ProviderName)>>
            /\ pc' = "upload_write" /\ upload_result' = upload_result
    /\ UNCHANGED <<inputs, calls, exit_code, raised, uploader, fetchv, loopv, stdout,
                   cost_data, upload_calls, submitted, file_exists, validv, methodv>>

\* upload_costs lines 75-76: open(..., 'w') and json.dump; any exception is caught at
\* line 107 and makes the result False
UploadWrite ==
    /\ pc = "upload_write"
    /\ \E outcome \in {"ok", "open_failed", "dump_failed"} :
           /\ file_exists' = (outcome # "open_failed")
           /\ IF outcome = "ok"
              THEN pc' = "upload_put" /\ upload_result' = upload_result
              ELSE pc' = "upload_finally" /\ upload_result' = "False"
    /\ UNCHANGED <<inputs, calls, exit_code, raised, uploader, fetchv, loopv, stdout,
                   cost_data, upload_calls, submitted, tmp_file, validv, methodv>>

\* an upload that does not look at the status of the response
PutResultUnchecked(outcome) == IF outcome = "RequestException" THEN "False" ELSE "True"

\* the result of upload_costs for an outcome of the PUT (lines 87-105)
PutResult(outcome) == IF outcome = "ok" THEN "True" ELSE "False"

PutOutcomes == {"ok", "HTTP401", "HTTP403", "HTTP500", "RequestException"}

\* upload_costs lines 85-105: the single requests.put and raise_for_status
UploadPut ==
    /\ pc = "upload_put"
    /\ submitted' = Append(submitted, cost_data)
    /\ \E outcome \in PutOutcomes :
           /\ calls' = Append(calls, [to |-> "datadog", outcome |-> [status |-> outcome]])
           /\ upload_result' = PutResult(outcome)
    /\ pc' = "upload_finally"
    /\ UNCHANGED <<inputs, exit_code, raised, uploader, fetchv, loopv, stdout,
                   cost_data, upload_calls, tmp_file, file_exists, validv, methodv>>

\* a cleanup that is skipped when the upload did not succeed
RemoveOnSuccess(exists) == exists /\ upload_result # "True"

\* "if os.path.exists(temp_filename): os.remove(temp_filename)": whether the file is
\* on disk afterwards
RemoveIfExists(exists) == IF exists THEN FALSE ELSE exists

\* upload_costs lines 111-115: the finally clause removes the file when it exists
UploadFinally ==
    /\ pc = "upload_finally"
    /\ file_exists' = RemoveIfExists(file_exists)
    /\ pc' = "upload_return"
    /\ UNCHANGED <<inputs, calls, exit_code, raised, uploader, fetchv, loopv, stdout,
                   cost_data, upload_calls, submitted, tmp_file, upload_result, validv, methodv>>

\* a main that ignores what upload_costs returned
UploadExitCodeIgnored(success) == 0

\* main: "if success: sys.exit(0) else: sys.exit(1)"
UploadExitCode(success) == IF success = "True" THEN 0 ELSE 1

\* main after upload_costs returned (neon lines 485-490, github lines 318-323)
AfterUpload ==
    /\ pc = "upload_return" /\ provider # "Direct"
    /\ Exit(UploadExitCode(upload_result))
    /\ UNCHANGED <<inputs, calls, raised, uploader, fetchv, loopv, stdout, uploadv, validv, methodv>>

\* main: "except Exception as e: ... sys.exit(1)"
Except ==
    /\ pc = "except"
    /\ Exit(1)
    /\ UNCHANGED <<inputs, calls, raised, uploader, fetchv, loopv, stdout, uploadv, validv, methodv>>

Next ==
    \/ InitFetcher \/ InitUploader \/ FetchMetadata \/ FetchPage \/ CheckEmpty
    \/ ProcessProject \/ FetchBilling \/ ConvertItem \/ DryRun \/ CallUpload
    \/ UploadEntry \/ UploadWrite \/ UploadPut \/ UploadFinally \/ AfterUpload \/ Except

Spec == Init /\ [][Next]_vars

(***************************************************************************)
(* A caller of the uploader module alone: DatadogCostUploader is shared    *)
(* by "any SaaS cost provider", so its two methods take batches and        *)
(* records that neither pipeline builds                                    *)
(***************************************************************************)
Restrict(record, keys) == [k \in keys |-> record[k]]

FullRecord ==
    NeonRecord("Compute", Strftime([year |-> 2026, month |-> 2, day |-> 5]), <<1, 2>>,
               [charge_type |-> "compute"])

LaterRecord ==
    NeonRecord("Storage", Strftime([year |-> 2026, month |-> 2, day |-> 6]), <<1, 80>>,
               [charge_type |-> "storage"])

\* records holding any subset of the keys of a full record
RecordPool == {Restrict(FullRecord, keys) : keys \in SUBSET DOMAIN FullRecord}

BatchPool ==
    {<<>>,
     <<FullRecord>>,
     <<FullRecord, LaterRecord>>,
     <<Restrict(FullRecord, DOMAIN FullRecord \ {"BilledCost"})>>,
     <<LaterRecord, Restrict(FullRecord, {"ProviderName", "BilledCost"})>>}

InitDirect ==
    /\ provider = "Direct"
    /\ environ \in [{"DD_API_KEY", "DD_APP_KEY"} -> {None, "secret"}]
    /\ dry_run = FALSE
    /\ date_args = [year |-> 2026, month |-> 2, day |-> 5]
    /\ source \in {<<[cost_data |-> b, provider_name |-> n]>> :
                       b \in BatchPool, n \in {None, "Neon"}}
    /\ InitRun /\ NoMethodCall

\* the caller constructs the uploader
ClientNew ==
    /\ pc = "start" /\ provider = "Direct"
    /\ uploader' = NewUploader
    /\ pc' = "client"
    /\ UNCHANGED <<inputs, calls, exit_code, raised, fetchv, loopv, stdout, uploadv, validv, methodv>>

\* the caller calls validate_focus_format(cost_record)
ClientValidate ==
    /\ pc = "client"
    /\ \E cost_record \in RecordPool :
           /\ v_record' = cost_record
           /\ v_result' = IF validate_focus_format(cost_record) THEN "True" ELSE "False"
    /\ UNCHANGED <<inputs, pc, calls, exit_code, raised, uploader, fetchv, loopv, stdout,
                   uploadv, methodv>>

\* the caller calls upload_costs(cost_data, provider_name)
ClientUpload ==
    /\ pc = "client"
    /\ cost_data' = source[1].cost_data
    /\ upload_calls' = upload_calls + 1
    /\ pc' = "upload_entry"
    /\ UNCHANGED <<inputs, calls, exit_code, raised, uploader, fetchv, loopv, stdout,
                   submitted, tmp_file, file_exists, upload_result, validv, methodv>>

\* upload_costs returned to the caller
ClientReturn ==
    /\ pc = "upload_return" /\ provider = "Direct"
    /\ pc' = "done"
    /\ UNCHANGED <<inputs, calls, exit_code, raised, uploader, fetchv, loopv, stdout,
                   uploadv, validv, methodv>>

NextDirect ==
    \/ ClientNew \/ ClientValidate \/ ClientUpload
    \/ UploadEntry \/ UploadWrite \/ UploadPut \/ UploadFinally \/ ClientReturn

SpecDirect == InitDirect /\ [][NextDirect]_vars

(***************************************************************************)
(* A caller of NeonCostFetcher's methods alone: extract_daily_metrics,      *)
(* calculate_daily_costs and convert_to_focus take any raw record, any      *)
(* date and any project name, not only those a run of main meets            *)
(***************************************************************************)
MaxNameLen == 3

NameChars == {"a", "b", "-"}

\* the display names of up to MaxNameLen characters, and the example of line 287
NamePool ==
    UNION {[1..n -> NameChars] : n \in 0..MaxNameLen} \cup {GameOpsStage}

MetricNames ==
    <<"compute_unit_seconds", "root_branch_bytes_month", "child_branch_bytes_month",
      "public_network_transfer_bytes">>

\* the values a metric of a raw record can carry
MetricValues == {0, 536870912, -1}

\* raw daily records holding any subset of the four metrics, each with any of the values
RawRecordPool ==
    {[timeframe_start |-> "t0",
      metrics |-> LET present == SelectSeq(MetricNames, LAMBDA n : n \in DOMAIN f)
                  IN  [i \in 1..Len(present) |->
                          [metric_name |-> present[i], value |-> f[present[i]]]]] :
        f \in UNION {[S -> MetricValues] : S \in SUBSET {MetricNames[i] : i \in 1..4}}}

\* days in months of 28, 29, 30 and 31 days, century years included
CalendarPool ==
    {[year |-> 2026, month |-> 2, day |-> 5], [year |-> 2024, month |-> 2, day |-> 29],
     [year |-> 2100, month |-> 2, day |-> 1], [year |-> 2000, month |-> 2, day |-> 29],
     [year |-> 2026, month |-> 4, day |-> 30], [year |-> 2026, month |-> 1, day |-> 31]}

\* stored byte counts: 0.25 GB, 0.5 GB, 1 GB
StoragePool == {268435456, 536870912, 1073741824}

MethodCalls ==
    {[method |-> "convert_to_focus", project |-> [id |-> P1, name |-> n]] : n \in NamePool}
    \cup {[method |-> "extract_daily_metrics", daily_record |-> r] : r \in RawRecordPool}
    \cup {[method |-> "calculate_daily_costs",
           metrics |-> extract_daily_metrics(
                           [metrics |-> <<[metric_name |-> "root_branch_bytes_month",
                                           value |-> b]>>]),
           dates |-> <<d1, d2>>] : b \in StoragePool, d1 \in CalendarPool, d2 \in CalendarPool}

InitMethods ==
    /\ provider = "Methods"
    /\ environ = [n \in {"NEON_API_KEY", "NEON_ORG_ID"} |-> "secret"]
    /\ dry_run = TRUE
    /\ date_args = [year |-> 2026, month |-> 2, day |-> 5]
    /\ source = <<>>
    /\ InitRun
    /\ m_call \in MethodCalls /\ m_result = <<>>

\* the caller calls convert_to_focus for a busy day of a project with the given name
CallConvertToFocus ==
    /\ provider = "Methods" /\ m_result = <<>> /\ m_call.method = "convert_to_focus"
    /\ LET metrics == extract_daily_metrics(RecBusy)
           costs == calculate_daily_costs(metrics, date_args)
       IN  m_result' = <<Neon_convert_to_focus(costs, metrics, date_args, m_call.project)>>
    /\ UNCHANGED <<inputs, pc, calls, exit_code, raised, uploader, fetchv, loopv, stdout,
                   uploadv, validv, m_call>>

\* the caller calls extract_daily_metrics(daily_record)
CallExtractDailyMetrics ==
    /\ provider = "Methods" /\ m_result = <<>> /\ m_call.method = "extract_daily_metrics"
    /\ m_result' = <<extract_daily_metrics(m_call.daily_record)>>
    /\ UNCHANGED <<inputs, pc, calls, exit_code, raised, uploader, fetchv, loopv, stdout,
                   uploadv, validv, m_call>>

\* the caller calls calculate_daily_costs for the same metrics on two dates
CallCalculateDailyCosts ==
    /\ provider = "Methods" /\ m_result = <<>> /\ m_call.method = "calculate_daily_costs"
    /\ m_result' = <<[i \in 1..2 |-> calculate_daily_costs(m_call.metrics, m_call.dates[i])]>>
    /\ UNCHANGED <<inputs, pc, calls, exit_code, raised, uploader, fetchv, loopv, stdout,
                   uploadv, validv, m_call>>

NextMethods == CallConvertToFocus \/ CallExtractDailyMetrics \/ CallCalculateDailyCosts

SpecMethods == InitMethods /\ [][NextMethods]_vars

(***************************************************************************)
(* Properties                                                              *)
(***************************************************************************)
CallsTo(target) == SelectSeq(calls, LAMBDA c : c.to = target)

\* fetch_projects_with_consumption has returned to neon main
FetchReturned ==
    /\ provider = "Neon" /\ raised = None
    /\ pc \notin {"start", "init_uploader", "fetch_metadata", "fetch_page"}

\* C1: for a source of n pages whose first n-1 pages carry a cursor and whose page n
\* carries none (absent or empty), fetch_projects_with_consumption makes exactly n
\* requests and returns the concatenation of the n pages' entities in page order
C1_PaginationConcatenates ==
    FetchReturned =>
        /\ Len(CallsTo("neon_consumption")) = Len(source)
        /\ projects = Concat([i \in 1..Len(source) |-> Get(source[i], "projects", <<>>)])

\* a three-page source (cursor, cursor, none) has been read to its end
C1_Witness ==
    /\ FetchReturned /\ Len(source) = 3 /\ Len(projects) >= 3
    /\ Get(source[1], "projects", <<>>) # <<>> /\ Get(source[3], "projects", <<>>) # <<>>

\* a pagination (or billing) request of this run has failed
FetchFailed == raised \in {"HTTPError", "RequestException"}

\* C2: when a pagination call fails, whatever was fetched before, nothing is returned
\* to main (no entity is processed, printed or uploaded), the failing request is the
\* last network call of the run, the sink is never invoked, and the exit code is 1
C2_FetchFailureAborts ==
    /\ [](FetchFailed =>
            /\ projects = <<>> /\ idx = 0 /\ all_focus_records = <<>> /\ stdout = <<>>
            /\ upload_calls = 0 /\ submitted = <<>> /\ CallsTo("datadog") = <<>>
            /\ calls[Len(calls)].to \in {"neon_consumption", "github_usage"}
            /\ calls[Len(calls)].outcome.status = raised
            /\ pc \in {"except", "done"}
            /\ exit_code = IF pc = "done" THEN 1 ELSE -1)
    /\ [][FetchFailed => calls' = calls /\ FetchFailed']_vars

\* the third page request failed after two pages were fetched, and the run has ended
C2_Witness ==
    /\ provider = "Neon" /\ FetchFailed /\ pc = "done"
    /\ Len(CallsTo("neon_consumption")) = 3 /\ Len(all_projects) >= 2

\* C3: no record with a BilledCost of 0 (or less) is ever in the batch of a run
C3_NoZeroCostRecord ==
    \A i \in 1..Len(all_focus_records) : RatPos(all_focus_records[i].BilledCost)

\* the metadata lookup of this Neon run failed
MetaFailed ==
    /\ provider = "Neon" /\ calls # <<>>
    /\ calls[1].to = "neon_projects" /\ calls[1].outcome.status # "ok"

\* the for loop of main has processed every entity
LoopDone == pc = "loop" /\ idx = Len(projects)

\* an entity of the consumption endpoint whose day has a positive cost
Billable(project) ==
    LET periods == Get(project, "periods", <<>>)
        consumption == IF periods = <<>> THEN <<>> ELSE Get(periods[1], "consumption", <<>>)
        costs == calculate_daily_costs(extract_daily_metrics(consumption[1]), date_args)
    IN  /\ consumption # <<>>
        /\ \/ RatPos(costs.compute_cost) \/ RatPos(costs.storage_cost)
           \/ RatPos(costs.data_transfer_cost)

\* C4: a failed metadata lookup loses no cost record: every entity the usage fetch
\* returned still has its records in the batch (GitHub: one record per usage item;
\* Neon: a record for every entity with a positive cost)
C4_LookupFailureKeepsRecords ==
    /\ (provider = "GitHub" /\ LoopDone) => Len(all_focus_records) = Len(projects)
    /\ (MetaFailed /\ LoopDone) =>
           \A i \in 1..Len(projects) :
               Billable(projects[i]) =>
                   \E j \in 1..Len(all_focus_records) :
                       all_focus_records[j].Tags.project_id = projects[i].project_id

\* the batch main builds, as a function of the provider's responses alone
RECURSIVE GitHubBatch(_, _, _)
GitHubBatch(items, answers, billing) ==
    IF items = <<>> THEN <<>>
    ELSE IF Get(Head(items), "repositoryName", <<>>) # <<>>
    THEN <<GitHub_convert_to_focus(Head(items), billing, billing,
                                   get_repository_metadata(Head(answers).outcome))>>
             \o GitHubBatch(Tail(items), Tail(answers), billing)
    ELSE <<GitHub_convert_to_focus(Head(items), billing, billing, EmptyDict)>>
             \o GitHubBatch(Tail(items), answers, billing)

BatchOfResponses ==
    IF provider = "Neon"
    THEN Concat([i \in 1..Len(projects) |->
                    ProjectOutcome(projects[i], fetch_project_metadata(calls[1].outcome),
                                   date_args).records])
    ELSE GitHubBatch(projects, CallsTo("github_repo"), BillingDate(date_args))

RECURSIVE SumBilledCost(_)
SumBilledCost(records) ==
    IF records = <<>> THEN RatZero
    ELSE RatAdd(SumBilledCost(SubSeq(records, 1, Len(records) - 1)),
                records[Len(records)].BilledCost)

\* C5: the batch does not depend on the mode: the dry run prints, record for record,
\* the batch the responses determine, with the sum of its BilledCost as total and
\* without invoking the sink; the live run passes that same batch to upload_costs
C5_DryRunEqualsLiveBatch ==
    /\ (idx = Len(projects) /\ idx > 0) => all_focus_records = BatchOfResponses
    /\ stdout # <<>> =>
           /\ dry_run /\ Len(stdout) = 1
           /\ stdout[1].records = BatchOfResponses
           /\ stdout[1].total = SumBilledCost(BatchOfResponses)
           /\ stdout[1].count = Len(BatchOfResponses)
           /\ upload_calls = 0 /\ submitted = <<>> /\ CallsTo("datadog") = <<>>
    /\ dry_run => upload_calls = 0 /\ CallsTo("datadog") = <<>>
    /\ upload_calls > 0 => ~dry_run /\ cost_data = BatchOfResponses

\* a dry run has printed a batch that holds a zero-cost record among others
C5_Witness ==
    /\ pc = "done" /\ stdout # <<>> /\ Len(stdout[1].records) >= 2
    /\ ~C3_NoZeroCostRecord

\* a credential or organization identity the run needs is not set
ConfigMissing ==
    \/ \E n \in DOMAIN environ \ {"DD_API_KEY", "DD_APP_KEY"} : ~Truthy(environ[n])
    \/ ~dry_run /\ (~Truthy(Getenv("DD_API_KEY")) \/ ~Truthy(Getenv("DD_APP_KEY")))

\* C6: with a needed credential missing the run makes no network call and fails
C6_MissingConfigNoNetwork ==
    ConfigMissing => calls = <<>> /\ (pc = "done" => exit_code = 1)

\* upload_costs has returned
UploadReturned == pc \in {"upload_return", "done"} /\ upload_calls > 0

\* C7: upload_costs returns a boolean and never raises: False for missing credentials
\* and for an empty batch (without any request), False for every failed PUT, and True
\* exactly when its single PUT ended with a success status
C7_UploadNeverRaises ==
    /\ raised = None
    /\ UploadReturned =>
           /\ upload_result \in {"True", "False"}
           /\ upload_result = "True" <=>
                  /\ Len(CallsTo("datadog")) = 1
                  /\ CallsTo("datadog")[1].outcome.status = "ok"
           /\ (CredentialsMissing(uploader[1]) \/ cost_data = <<>>) =>
                  upload_result = "False" /\ calls = <<>> /\ tmp_file = <<>>

\* upload_costs returned False because the sink answered 403
C7_Witness ==
    /\ UploadReturned /\ upload_result = "False" /\ calls # <<>>
    /\ calls[Len(calls)].outcome.status = "HTTP403"

\* C8: the sink is invoked at most once per run, with the whole batch; once the call
\* has failed no further call is made and the run ends with exit code 1
C8_SingleSinkCallNoRetry ==
    /\ [](/\ upload_calls <= 1 /\ Len(CallsTo("datadog")) <= 1 /\ Len(submitted) <= 1
          /\ submitted # <<>> => submitted[1] = all_focus_records
          /\ (pc = "done" /\ upload_result = "False") => exit_code = 1)
    /\ [][upload_result = "False" =>
              /\ calls' = calls /\ upload_calls' = upload_calls
              /\ upload_result' = "False"]_vars

\* the sink answered the PUT with an error and the run has ended
C8_Witness ==
    /\ pc = "done" /\ upload_result = "False" /\ exit_code = 1
    /\ Len(CallsTo("datadog")) = 1 /\ CallsTo("datadog")[1].outcome.status = "HTTP500"

SixRequiredFields ==
    {"ProviderName", "ChargeDescription", "ChargePeriodStart", "ChargePeriodEnd",
     "BilledCost", "BillingCurrency"}

\* C9: every record of every batch the PUT carries has the six required fields
C9_SubmittedRecordsValid ==
    \A i \in 1..Len(submitted) : \A j \in 1..Len(submitted[i]) :
        SixRequiredFields \subseteq DOMAIN submitted[i][j]

\* C10: validate_focus_format returns True exactly for the records that hold all six
\* required keys, whatever else they hold
C10_ValidateChecksSixFields ==
    v_result # None =>
        (v_result = "True" <=> SixRequiredFields \subseteq DOMAIN v_record)

\* a record with Tags that lacks only BillingCurrency was rejected
C10_Witness ==
    /\ v_result = "False"
    /\ DOMAIN v_record = (SixRequiredFields \ {"BillingCurrency"}) \cup {"Tags"}

\* a direct call of the given method has returned
Returned(method) == m_result # <<>> /\ m_call.method = method

HasHyphen(name) == \E i \in 1..Len(name) : name[i] = "-"

\* C11: the (service, env) tags of a record split the display name at its right-most
\* hyphen: service, "-", env spell the name and env holds no hyphen; a name without a
\* hyphen gives service = the whole name and env = "unknown"
C11_RightmostHyphenSplit ==
    Returned("convert_to_focus") =>
        LET name == m_call.project.name
            records == m_result[1]
        IN  /\ records # <<>>
            /\ \A i \in 1..Len(records) :
                   LET service == records[i].Tags.service
                       env == records[i].Tags.env
                   IN  IF HasHyphen(name)
                       THEN service \o <<"-">> \o env = name /\ ~HasHyphen(env)
                       ELSE service = name /\ env = Unknown

\* "game-ops-stage" gave service "game-ops" and env "stage"
C11_Witness ==
    /\ Returned("convert_to_focus") /\ m_call.project.name = GameOpsStage
    /\ m_result[1][1].Tags.service = <<"g", "a", "m", "e", "-", "o", "p", "s">>
    /\ m_result[1][1].Tags.env = <<"s", "t", "a", "g", "e">>

\* the labels or topics of an entity that start with "service-"
ServiceLabels(labels) == SelectSeq(labels, LAMBDA l : StartsWith(l, ServicePrefix))

\* the text of a label after its "service-" prefix
LabelSuffix(label) == SubSeq(label, Len(ServicePrefix) + 1, Len(label))

\* the labels the metadata source gave for a Neon entity
LabelsOfProject(project_id) ==
    LET entities == IF calls[1].outcome.status = "ok" THEN calls[1].outcome.projects ELSE <<>>
        mine == SelectSeq(entities, LAMBDA e : Get(e, "id", None) = project_id)
    IN  IF mine = <<>> THEN <<>> ELSE Get(mine[Len(mine)], "labels", <<>>)

\* C12: a record of an entity that carries a label or topic prefixed "service-" has the
\* suffix of the first such label as its service tag, whatever the entity's name is
\* (GitHub: the topics of the repository lookup; Neon: the labels of the metadata source)
C12_ServiceLabelOverrides ==
    /\ provider = "GitHub" =>
           LET recs == SelectSeq(all_focus_records, LAMBDA r : "repository" \in DOMAIN r.Tags)
               answers == CallsTo("github_repo")
           IN  \A k \in 1..Len(recs) :
                   LET topics == IF answers[k].outcome.status = "ok"
                                 THEN Get(answers[k].outcome.body, "topics", <<>>) ELSE <<>>
                   IN  recs[k].Tags.service =
                           IF ServiceLabels(topics) # <<>>
                           THEN LabelSuffix(ServiceLabels(topics)[1])
                           ELSE recs[k].Tags.repository
    /\ provider = "Neon" =>
           \A k \in 1..Len(all_focus_records) :
               LET labels == LabelsOfProject(all_focus_records[k].Tags.project_id)
               IN  ServiceLabels(labels) # <<>> =>
                       all_focus_records[k].Tags.service = LabelSuffix(ServiceLabels(labels)[1])

\* the number a string of decimal digits spells
RECURSIVE DigitsValue(_)
DigitsValue(cs) ==
    IF cs = <<>> THEN 0
    ELSE 10 * DigitsValue(SubSeq(cs, 1, Len(cs) - 1))
           + (CHOOSE d \in 0..9 : Digits[d + 1] = cs[Len(cs)])

\* cs is the date written YYYY-MM-DD
SpellsDate(cs, year, month, day) ==
    /\ Len(cs) = 10 /\ cs[5] = "-" /\ cs[8] = "-"
    /\ \A i \in {1, 2, 3, 4, 6, 7, 9, 10} : \E d \in 1..10 : Digits[d] = cs[i]
    /\ DigitsValue(SubSeq(cs, 1, 4)) = year
    /\ DigitsValue(SubSeq(cs, 6, 7)) = month
    /\ DigitsValue(SubSeq(cs, 9, 10)) = day

\* C13: every record of the batch covers one day: ChargePeriodStart = ChargePeriodEnd,
\* and both spell the run's billing date as YYYY-MM-DD: the date given, the first of the
\* month when only year and month are given, January 1st when only the year is given
C13_RecordsCoverOneDay ==
    \A i \in 1..Len(all_focus_records) :
        LET r == all_focus_records[i]
        IN  /\ r.ChargePeriodStart = r.ChargePeriodEnd
            /\ SpellsDate(r.ChargePeriodStart, date_args.year,
                          IF date_args.month = 0 THEN 1 ELSE date_args.month,
                          IF date_args.day = 0 THEN 1 ELSE date_args.day)

\* a GitHub run given only a year and a month has built its records
C13_Witness ==
    /\ provider = "GitHub" /\ date_args.month # 0 /\ date_args.day = 0
    /\ LoopDone /\ Len(all_focus_records) >= 2

\* the raw usage records of a project's first period
FirstPeriodRecords(project) ==
    LET periods == Get(project, "periods", <<>>)
    IN  IF periods = <<>> THEN <<>> ELSE Get(periods[1], "consumption", <<>>)

\* the project as it would be if only the first record had been present
OnlyFirstRecord(project) ==
    IF Len(FirstPeriodRecords(project)) <= 1 THEN project
    ELSE [project EXCEPT !.periods =
             <<[project.periods[1] EXCEPT !.consumption = <<FirstPeriodRecords(project)[1]>>]>>
               \o Tail(project.periods)]

\* C14: a project whose first period holds k > 1 raw records is priced from the first
\* record alone: the batch is the one the same projects give with records 2..k removed,
\* one warning is logged for each such project that is processed, and no exception is raised
C14_OnlyFirstRecordPriced ==
    provider = "Neon" =>
        /\ all_focus_records =
               Concat([i \in 1..idx |->
                   ProjectOutcome(OnlyFirstRecord(projects[i]), project_name_map,
                                  date_args).records])
        /\ warnings = Cardinality({i \in 1..idx :
                          /\ Len(FirstPeriodRecords(projects[i])) > 1
                          /\ ~NotInOrganization(projects[i].project_id, project_name_map)})
        /\ warnings > 0 => raised = None

\* a run that met a project with two records for the day warned, priced it, and ended
\* with exit code 0
C14_Witness ==
    /\ provider = "Neon" /\ pc = "done" /\ exit_code = 0
    /\ warnings >= 1 /\ all_focus_records # <<>>

\* the value the raw record carries for a metric name: <<>> when it has no such metric,
\* <<v>> for the value of its last entry with that name
RawValue(daily_record, metric_name) ==
    LET mine == SelectSeq(Get(daily_record, "metrics", <<>>),
                          LAMBDA m : Get(m, "metric_name", None) = metric_name)
    IN  IF mine = <<>> THEN <<>> ELSE <<mine[Len(mine)].value>>

\* C15: every metric of the bag extract_daily_metrics returns is a number >= 0, is 0 when
\* the raw record lacks the metric, and storage_bytes = root_branch_bytes + child_branch_bytes
C15_MetricBagNonNegative ==
    Returned("extract_daily_metrics") =>
        LET bag == m_result[1]
            raw == m_call.daily_record
        IN  /\ \A k \in {"compute_seconds", "storage_bytes", "root_branch_bytes",
                         "child_branch_bytes", "public_transfer_bytes"} :
                   bag[k] \in Nat
            /\ RawValue(raw, "compute_unit_seconds") = <<>> => bag.compute_seconds = 0
            /\ RawValue(raw, "root_branch_bytes_month") = <<>> => bag.root_branch_bytes = 0
            /\ RawValue(raw, "child_branch_bytes_month") = <<>> => bag.child_branch_bytes = 0
            /\ RawValue(raw, "public_network_transfer_bytes") = <<>> =>
                   bag.public_transfer_bytes = 0
            /\ bag.storage_bytes = bag.root_branch_bytes + bag.child_branch_bytes

\* the length of the calendar months of the dates above, from the calendar
MonthLength(date) ==
    LET ym == <<date.year, date.month>>
    IN  IF ym \in {<<2026, 2>>, <<2100, 2>>} THEN 28
        ELSE IF ym \in {<<2024, 2>>, <<2000, 2>>} THEN 29
        ELSE IF ym = <<2026, 4>> THEN 30
        ELSE 31

\* a < b on amounts
RatLess(a, b) == a[1] * b[2] < b[1] * a[2]

\* C16: the daily storage cost is the monthly charge (GB x rate) divided by the number
\* of days of the billing date's own month, so for the same positive byte count a day
\* of a shorter month costs strictly more than a day of a longer one (28 days against 31)
C16_StorageProratedByMonthLength ==
    Returned("calculate_daily_costs") =>
        LET costs == m_result[1]
            dates == m_call.dates
        IN  /\ m_call.metrics.storage_bytes > 0
            /\ \A i \in 1..2 :
                   /\ costs[i].days_in_month = MonthLength(dates[i])
                   /\ RatMul(costs[i].storage_cost, Dec(MonthLength(dates[i])))
                          = RatMul(RatNorm(m_call.metrics.storage_bytes, BytesPerGB),
                                   RatNorm(35, 100))
            /\ MonthLength(dates[1]) < MonthLength(dates[2]) =>
                   RatLess(costs[2].storage_cost, costs[1].storage_cost)

\* one GB priced on a day of February 2026 (28 days) and on a day of January 2026 (31 days)
C16_Witness ==
    /\ Returned("calculate_daily_costs")
    /\ m_call.metrics.storage_bytes = BytesPerGB
    /\ MonthLength(m_call.dates[1]) = 28 /\ MonthLength(m_call.dates[2]) = 31
    /\ m_result[1][1].storage_cost = <<1, 80>>
    /\ m_result[1][2].storage_cost = <<7, 620>>

\* a Neon run whose pagination returned at least one project and whose loop built no record
EmptyNeonBatch ==
    /\ provider = "Neon" /\ raised = None /\ projects # <<>>
    /\ idx = Len(projects) /\ all_focus_records = <<>>

\* C17: a Neon run with at least one project and an empty batch ends, when live, with
\* upload_costs called once with the empty batch, returning False without a request to
\* the sink, and exit code 1; the same run as a dry run ends with exit code 0
C17_EmptyBatchFailsLiveRun ==
    (EmptyNeonBatch /\ pc = "done") =>
        IF dry_run
        THEN exit_code = 0 /\ upload_calls = 0 /\ CallsTo("datadog") = <<>>
        ELSE /\ upload_calls = 1 /\ cost_data = <<>> /\ upload_result = "False"
             /\ CallsTo("datadog") = <<>> /\ submitted = <<>> /\ tmp_file = <<>>
             /\ exit_code = 1

\* a live run with both sink keys set found only idle or unknown projects and ended
\* with exit code 1
C17_Witness ==
    /\ EmptyNeonBatch /\ pc = "done" /\ ~dry_run /\ exit_code = 1
    /\ ~CredentialsMissing(uploader[1])
    /\ \E i \in 1..Len(projects) : projects[i] = ProjIdle

\* the cursor the page answering the i-th call carried
CursorAnswered(i) ==
    Get(Get(PageFor(source, calls[i].cursor), "pagination", EmptyDict), "cursor", None)

\* C18: the network calls of a Neon run are, in order, the metadata fetch, then the
\* pagination calls, then at most one call of the sink; the sink call comes only after a
\* successful pagination call answered by a page without cursor, and is the last call
C18_NeonCallOrder ==
    provider = "Neon" =>
        /\ \A i \in 1..Len(calls) :
               /\ calls[i].to \in {"neon_projects", "neon_consumption", "datadog"}
               /\ calls[i].to = "neon_projects" <=> i = 1
               /\ calls[i].to = "datadog" =>
                      /\ i = Len(calls) /\ i >= 3
                      /\ calls[i - 1].to = "neon_consumption"
                      /\ calls[i - 1].outcome.status = "ok"
                      /\ CursorAnswered(i - 1) \in {None, ""}
                      /\ Len(CallsTo("neon_consumption")) = Len(source)
        /\ Len(CallsTo("datadog")) <= 1

\* a run over three pages has made its five calls: metadata, three pages, the sink
C18_Witness ==
    /\ provider = "Neon" /\ pc = "done" /\ Len(calls) = 5 /\ Len(source) = 3
    /\ calls[5].to = "datadog"

\* upload_costs returns early: a sink key is missing or the batch is empty
ReturnsEarly == uploader # <<>> /\ (CredentialsMissing(uploader[1]) \/ source[1].cost_data = <<>>)

\* C19: once upload_costs has returned, whatever happened to the write and to the PUT,
\* the temporary file is not on disk; when it returns early for missing credentials or
\* an empty batch, no file name is computed and no file ever is on disk
C19_NoTemporaryFileLeft ==
    /\ UploadReturned => ~file_exists
    /\ (provider = "Direct" /\ ReturnsEarly) => ~file_exists /\ tmp_file = <<>>
    /\ file_exists => tmp_file # <<>> /\ pc \in {"upload_put", "upload_finally"}

\* upload_costs returned False after the sink refused a file that had been written:
\* the file is gone
C19_Witness ==
    /\ provider = "Direct" /\ pc = "done" /\ upload_result = "False"
    /\ tmp_file # <<>> /\ ~file_exists
    /\ Len(CallsTo("datadog")) = 1 /\ CallsTo("datadog")[1].outcome.status = "HTTP401"

====
